---- MODULE Spec2Model ----
(***************************************************************************)
(* MySTL: iterator tags and traits, distance/advance (iterator.h), and     *)
(* move/forward/swap/pair (util.h), type_traits.h.                         *)
(*                                                                         *)
(* The library is a set of function templates.  The model is a driver that *)
(* calls one function at a time with arguments drawn from bounded sets and *)
(* executes its body statement by statement.  An iterator is a position    *)
(* 0..SeqLen in a sequence of SeqLen elements (SeqLen is one past the      *)
(* end); stepping outside 0..SeqLen is undefined behaviour and leads to    *)
(* the location "ub" with an arbitrary outcome.                            *)
(***************************************************************************)
EXTENDS Integers, Sequences, FiniteSets

\* ---- bounds ----
SeqLen == 3      \* elements in the sequence the iterators range over
MaxN   == 3      \* |n| of the advance calls
MaxVal == 2      \* values are 0..MaxVal
MaxArr == 2      \* length N of the swapped arrays is 1..MaxArr
MaxElem == 1     \* elements of the swapped arrays are 0..MaxElem

Positions == 0..SeqLen
Values    == 0..MaxVal
NoVal     == 0 - 1

VARIABLES
  pc,      \* location of the running call, "idle" between calls
  call,    \* the arguments of the running call, as passed
  first,   \* distance_dispatch: first
  last,    \* distance_dispatch: last
  n,       \* distance_dispatch: n (the count) / advance_dispatch: n
  i,       \* advance_dispatch: i
  ret,     \* value returned by distance
  incs,    \* number of ++ applied to the iterator by the running call
  decs,    \* number of -- applied to the iterator by the running call
  a,       \* swap: a (array overload: a[0..N-1], 1-based here)
  b,       \* swap: b
  tmp,     \* swap: tmp, NoVal outside its lifetime
  idx,     \* swap(T (&)[N], T (&)[N]): the loop index i
  swaps,   \* number of element swaps completed by the array overload
  fwd,     \* forward: the overload taken and the value category yielded
  res      \* pair: the results of the six comparison operators

vars == <<pc, call, first, last, n, i, ret, incs, decs,
          a, b, tmp, idx, swaps, fwd, res>>

iterVars == <<first, last, n, i, ret, incs, decs>>
swapVars == <<a, b, tmp, idx, swaps>>

NoCall == [fn |-> "none"]
NoFwd  == [overload |-> 0, result |-> "none"]
NoRes  == [eq |-> FALSE, ne |-> FALSE, lt |-> FALSE,
           gt |-> FALSE, le |-> FALSE, ge |-> FALSE]

\* ------------------------------------------------------------------------
\* iterator.h: category tags, iterator_traits, overload resolution on tags
\* ------------------------------------------------------------------------

Tags == {"input_iterator_tag", "output_iterator_tag", "forward_iterator_tag",
         "bidirectional_iterator_tag", "random_access_iterator_tag"}

\* Variant in which forward_iterator_tag has no base class.
TagBase_ForwardDetached(t) ==
  CASE t = "bidirectional_iterator_tag" -> "forward_iterator_tag"
    [] t = "random_access_iterator_tag" -> "bidirectional_iterator_tag"
    [] OTHER                            -> "none"

\* The public base class of each tag struct ("none": no base).
TagBase(t) ==
  CASE t = "forward_iterator_tag"       -> "input_iterator_tag"
    [] t = "bidirectional_iterator_tag" -> "forward_iterator_tag"
    [] t = "random_access_iterator_tag" -> "bidirectional_iterator_tag"
    [] OTHER                            -> "none"

\* Iterator types: raw pointers and class types carrying iterator_category.
IterTypes ==
  {[kind |-> "T*", category |-> "none"],
   [kind |-> "const T*", category |-> "none"]}
  \cup {[kind |-> "class", category |-> t] : t \in Tags}

\* iterator_traits<Iterator>::iterator_category
iterator_traits(It) ==
  IF It.kind \in {"T*", "const T*"}
    THEN "random_access_iterator_tag"
    ELSE It.category

\* Overload resolution of a call passing category() to a set of overloads
\* whose last parameter is a tag type: an overload is viable when the tag is
\* the parameter type or derives from it, and the conversion to the nearest
\* base wins.  "none": no viable overload, the call is ill-formed.
RECURSIVE ResolveTag(_, _)
ResolveTag(t, overloads) ==
  IF t = "none" THEN "none"
  ELSE IF t \in overloads THEN t
  ELSE ResolveTag(TagBase(t), overloads)

\* The overloads of distance_dispatch and advance_dispatch.
distance_overloads == {"input_iterator_tag", "random_access_iterator_tag"}
advance_overloads  == {"input_iterator_tag", "bidirectional_iterator_tag",
                       "random_access_iterator_tag"}

\* ------------------------------------------------------------------------
\* distance
\* ------------------------------------------------------------------------

\* Variant with the operands exchanged: first - last.
distance_dispatch_random_Swapped(f, l) == f - l

\* distance_dispatch(first, last, random_access_iterator_tag)
distance_dispatch_random(f, l) == l - f

\* distance(first, last): pick the overload; the random-access one returns
\* at once, the input one enters its loop.
distance(It, f, l) ==
  LET ov == ResolveTag(iterator_traits(It), distance_overloads) IN
  /\ pc = "idle"
  /\ call' = [fn |-> "distance", it |-> It, first |-> f, last |-> l,
              overload |-> ov]
  /\ first' = f
  /\ last' = l
  /\ CASE ov = "none" ->
            /\ pc' = "ill_formed"
            /\ UNCHANGED <<n, ret>>
       [] ov = "random_access_iterator_tag" ->
            /\ pc' = "dist_done"
            /\ ret' = distance_dispatch_random(f, l)
            /\ UNCHANGED n
       [] OTHER ->
            /\ pc' = "dist_loop"
            /\ n' = 0
            /\ UNCHANGED ret
  /\ UNCHANGED <<i, incs, decs, swapVars, fwd, res>>

\* Variant of the loop body that leaves out ++n.
distance_loop_body_NoCount ==
  /\ pc = "dist_loop"
  /\ first # last
  /\ first < SeqLen
  /\ first' = first + 1
  /\ incs' = incs + 1
  /\ UNCHANGED <<pc, call, last, n, i, ret, decs, swapVars, fwd, res>>

\* while (first != last) { ++first; ++n; }
distance_loop_body ==
  /\ pc = "dist_loop"
  /\ first # last
  /\ first < SeqLen
  /\ first' = first + 1
  /\ incs' = incs + 1
  /\ n' = n + 1
  /\ UNCHANGED <<pc, call, last, i, ret, decs, swapVars, fwd, res>>

\* ++first on the past-the-end position: undefined behaviour.
distance_loop_ub ==
  /\ pc = "dist_loop"
  /\ first # last
  /\ first = SeqLen
  /\ pc' = "ub"
  /\ \E f \in Positions, r \in 0..SeqLen + 1 :
       /\ first' = f
       /\ ret' = r
  /\ UNCHANGED <<call, last, n, i, incs, decs, swapVars, fwd, res>>

\* first == last: return n;
distance_loop_exit ==
  /\ pc = "dist_loop"
  /\ first = last
  /\ ret' = n
  /\ pc' = "dist_done"
  /\ UNCHANGED <<call, first, last, n, i, incs, decs, swapVars, fwd, res>>

\* ------------------------------------------------------------------------
\* advance
\* ------------------------------------------------------------------------

\* Variant moving the other way: i -= n.
advance_dispatch_random_Minus(p, k) == p - k

\* advance_dispatch(i, n, random_access_iterator_tag): i += n
advance_dispatch_random(p, k) == p + k

\* advance(i, n): pick the overload; the random-access one returns at once
\* (i += n outside the sequence is undefined), the others enter their loops.
advance(It, p, k) ==
  LET ov == ResolveTag(iterator_traits(It), advance_overloads) IN
  /\ pc = "idle"
  /\ call' = [fn |-> "advance", it |-> It, i |-> p, n |-> k, overload |-> ov]
  /\ n' = k
  /\ CASE ov = "none" ->
            /\ pc' = "ill_formed"
            /\ i' = p
       [] ov = "random_access_iterator_tag" ->
            IF advance_dispatch_random(p, k) \in Positions
              THEN /\ pc' = "adv_done"
                   /\ i' = advance_dispatch_random(p, k)
              ELSE /\ pc' = "ub"
                   /\ i' \in Positions
       [] ov = "bidirectional_iterator_tag" ->
            /\ pc' = IF k >= 0 THEN "adv_bi_fwd" ELSE "adv_bi_bwd"
            /\ i' = p
       [] OTHER ->
            /\ pc' = "adv_in"
            /\ i' = p
  /\ UNCHANGED <<first, last, ret, incs, decs, swapVars, fwd, res>>

\* Variant testing after the step: do ++i; while (--n > 0).
advance_forward_body_DoWhile ==
  /\ pc \in {"adv_in", "adv_bi_fwd"}
  /\ n # 0 \/ n = call.n
  /\ n' = n - 1
  /\ IF i < SeqLen
       THEN /\ i' = i + 1
            /\ incs' = incs + 1
            /\ UNCHANGED pc
       ELSE /\ pc' = "ub"
            /\ i' \in Positions
            /\ UNCHANGED incs
  /\ UNCHANGED <<call, first, last, ret, decs, swapVars, fwd, res>>

\* while (n--) ++i;  -- the test reads n, then n is decremented; a true test
\* runs ++i, which is undefined on the past-the-end position.
advance_forward_body ==
  /\ pc \in {"adv_in", "adv_bi_fwd"}
  /\ n # 0
  /\ n' = n - 1
  /\ IF i < SeqLen
       THEN /\ i' = i + 1
            /\ incs' = incs + 1
            /\ UNCHANGED pc
       ELSE /\ pc' = "ub"
            /\ i' \in Positions
            /\ UNCHANGED incs
  /\ UNCHANGED <<call, first, last, ret, decs, swapVars, fwd, res>>

\* Variant leaving the loop one round early: while (n-- > 1).
advance_forward_exit_Early ==
  /\ pc \in {"adv_in", "adv_bi_fwd"}
  /\ n \in {0, 1}
  /\ n' = n - 1
  /\ pc' = "adv_done"
  /\ UNCHANGED <<call, first, last, i, ret, incs, decs, swapVars, fwd, res>>

\* while (n--): the test that fails still decrements n.
advance_forward_exit ==
  /\ pc \in {"adv_in", "adv_bi_fwd"}
  /\ n = 0
  /\ n' = n - 1
  /\ pc' = "adv_done"
  /\ UNCHANGED <<call, first, last, i, ret, incs, decs, swapVars, fwd, res>>

\* Variant whose backward loop repeats the forward loop's ++i.
advance_backward_body_Inc ==
  /\ pc = "adv_bi_bwd"
  /\ n # 0
  /\ n' = n + 1
  /\ IF i < SeqLen
       THEN /\ i' = i + 1
            /\ incs' = incs + 1
            /\ UNCHANGED pc
       ELSE /\ pc' = "ub"
            /\ i' \in Positions
            /\ UNCHANGED incs
  /\ UNCHANGED <<call, first, last, ret, decs, swapVars, fwd, res>>

\* while (n++) --i;  -- --i is undefined on the first position.
advance_backward_body ==
  /\ pc = "adv_bi_bwd"
  /\ n # 0
  /\ n' = n + 1
  /\ IF i > 0
       THEN /\ i' = i - 1
            /\ decs' = decs + 1
            /\ UNCHANGED pc
       ELSE /\ pc' = "ub"
            /\ i' \in Positions
            /\ UNCHANGED decs
  /\ UNCHANGED <<call, first, last, ret, incs, swapVars, fwd, res>>

advance_backward_exit ==
  /\ pc = "adv_bi_bwd"
  /\ n = 0
  /\ n' = n + 1
  /\ pc' = "adv_done"
  /\ UNCHANGED <<call, first, last, i, ret, incs, decs, swapVars, fwd, res>>

\* ------------------------------------------------------------------------
\* type_traits.h and forward
\* ------------------------------------------------------------------------

\* A type is a non-reference type with a reference qualifier.
RefKinds == {"none", "lref", "rref"}
Types == [base : {"int", "string"}, ref : RefKinds]

\* remove_reference<T>::type
remove_reference(T) == [T EXCEPT !.ref = "none"]

\* is_lvalue_reference<T>::value
is_lvalue_reference(T) == T.ref = "lref"

\* Variant without reference collapsing: T&& is always an rvalue reference.
AddRvalueRef_NoCollapse(T) == [T EXCEPT !.ref = "rref"]

\* T&&, by reference collapsing: T& && is T&, T && and T&& && are T&&.
AddRvalueRef(T) == IF T.ref = "lref" THEN T ELSE [T EXCEPT !.ref = "rref"]

\* The parameter type of forward's overload o: remove_reference_t<T>& for
\* overload 1, remove_reference_t<T>&& for overload 2.
forward_param(T, o) ==
  [remove_reference(T) EXCEPT !.ref = IF o = 1 THEN "lref" ELSE "rref"]

\* A non-const lvalue reference binds lvalues only, an rvalue reference
\* binds rvalues only.
Binds(P, arg) ==
  \/ P.ref = "lref" /\ arg = "lvalue"
  \/ P.ref = "rref" /\ arg = "rvalue"

\* The forward overload a call forward<T>(arg) selects.
forward_overload(T, arg) ==
  CHOOSE o \in {1, 2} : Binds(forward_param(T, o), arg)

\* The value category of a call whose return type is R: an lvalue when R is
\* an lvalue reference, an rvalue otherwise.
ValueCategory(R) == IF R.ref = "lref" THEN "lvalue" ELSE "rvalue"

\* forward<T>(arg): overload 2 with T an lvalue reference fails its
\* static_assert; otherwise the call yields static_cast<T&&>(arg).
forward(T, arg) ==
  LET ov == forward_overload(T, arg) IN
  /\ pc = "idle"
  /\ call' = [fn |-> "forward", T |-> T, arg |-> arg]
  /\ IF ov = 2 /\ is_lvalue_reference(T)
       THEN /\ pc' = "ill_formed"
            /\ fwd' = [overload |-> ov, result |-> "none"]
       ELSE /\ pc' = "fwd_done"
            /\ fwd' = [overload |-> ov,
                       result |-> ValueCategory(AddRvalueRef(T))]
  /\ UNCHANGED <<iterVars, swapVars, res>>

\* ------------------------------------------------------------------------
\* swap
\* ------------------------------------------------------------------------

\* The states a moved-from object may be left in: a scalar keeps its value,
\* a class object is valid but unspecified.
MovedFrom(vtype, v) == IF vtype = "int" THEN {v} ELSE Values

\* swap(T& a, T& b) is entered with a and b one element long; the array
\* overload runs the same body on a[idx], b[idx].
swap(vtype, x, y) ==
  /\ pc = "idle"
  /\ call' = [fn |-> "swap", vtype |-> vtype, a |-> <<x>>, b |-> <<y>>]
  /\ a' = <<x>>
  /\ b' = <<y>>
  /\ idx' = 0
  /\ pc' = "swap_tmp"
  /\ UNCHANGED <<iterVars, tmp, swaps, fwd, res>>

\* T tmp = mystl::move(a);
swap_tmp ==
  /\ pc = "swap_tmp"
  /\ tmp' = a[idx + 1]
  /\ \E m \in MovedFrom(call.vtype, a[idx + 1]) :
       a' = [a EXCEPT ![idx + 1] = m]
  /\ pc' = "swap_a"
  /\ UNCHANGED <<call, iterVars, b, idx, swaps, fwd, res>>

\* a = mystl::move(b);
swap_a ==
  /\ pc = "swap_a"
  /\ a' = [a EXCEPT ![idx + 1] = b[idx + 1]]
  /\ \E m \in MovedFrom(call.vtype, b[idx + 1]) :
       b' = [b EXCEPT ![idx + 1] = m]
  /\ pc' = "swap_b"
  /\ UNCHANGED <<call, iterVars, tmp, idx, swaps, fwd, res>>

\* Variant assigning b from a instead of tmp: b = mystl::move(a).
swap_b_FromA ==
  /\ pc = "swap_b"
  /\ b' = [b EXCEPT ![idx + 1] = a[idx + 1]]
  /\ tmp' = NoVal
  /\ IF call.fn = "swap_array"
       THEN /\ idx' = idx + 1
            /\ swaps' = swaps + 1
            /\ pc' = "arr_loop"
       ELSE /\ pc' = "swap_done"
            /\ UNCHANGED <<idx, swaps>>
  /\ UNCHANGED <<call, iterVars, a, fwd, res>>

\* b = mystl::move(tmp); then tmp goes out of scope and swap returns: to its
\* caller, or into the array overload's loop at ++i.
swap_b ==
  /\ pc = "swap_b"
  /\ b' = [b EXCEPT ![idx + 1] = tmp]
  /\ tmp' = NoVal
  /\ IF call.fn = "swap_array"
       THEN /\ idx' = idx + 1
            /\ swaps' = swaps + 1
            /\ pc' = "arr_loop"
       ELSE /\ pc' = "swap_done"
            /\ UNCHANGED <<idx, swaps>>
  /\ UNCHANGED <<call, iterVars, a, fwd, res>>

\* swap(T (&a)[N], T (&b)[N]): size_t i = 0
swap_array(vtype, xs, ys) ==
  /\ pc = "idle"
  /\ Len(xs) = Len(ys)
  /\ call' = [fn |-> "swap_array", vtype |-> vtype, a |-> xs, b |-> ys]
  /\ a' = xs
  /\ b' = ys
  /\ idx' = 0
  /\ pc' = "arr_loop"
  /\ UNCHANGED <<iterVars, tmp, swaps, fwd, res>>

\* for (; i < N; ++i) swap(a[i], b[i]);
swap_array_body ==
  /\ pc = "arr_loop"
  /\ idx < Len(a)
  /\ pc' = "swap_tmp"
  /\ UNCHANGED <<call, iterVars, swapVars, fwd, res>>

\* Variant stopping one element short: i < N - 1.
swap_array_exit_Short ==
  /\ pc = "arr_loop"
  /\ ~(idx < Len(a) - 1)
  /\ pc' = "swap_done"
  /\ UNCHANGED <<call, iterVars, swapVars, fwd, res>>

swap_array_exit ==
  /\ pc = "arr_loop"
  /\ ~(idx < Len(a))
  /\ pc' = "swap_done"
  /\ UNCHANGED <<call, iterVars, swapVars, fwd, res>>

\* ------------------------------------------------------------------------
\* pair comparison operators; a pair is <<first, second>>
\* ------------------------------------------------------------------------

Pairs == Values \X Values

pair_eq(p, q) == p[1] = q[1] /\ p[2] = q[2]
pair_ne(p, q) == ~pair_eq(p, q)
\* Variant comparing second without requiring equal firsts.
pair_lt_NoTie(p, q) == p[1] < q[1] \/ p[2] < q[2]

pair_lt(p, q) == p[1] < q[1] \/ (p[1] = q[1] /\ p[2] < q[2])
pair_gt(p, q) == pair_lt(q, p)
pair_le(p, q) == ~pair_lt(q, p)
pair_ge(p, q) == ~pair_lt(p, q)

\* The driver applies the six operators to a and b.
compare(p, q) ==
  /\ pc = "idle"
  /\ call' = [fn |-> "compare", a |-> p, b |-> q]
  /\ res' = [eq |-> pair_eq(p, q), ne |-> pair_ne(p, q),
             lt |-> pair_lt(p, q), gt |-> pair_gt(p, q),
             le |-> pair_le(p, q), ge |-> pair_ge(p, q)]
  /\ pc' = "cmp_done"
  /\ UNCHANGED <<iterVars, swapVars, fwd>>

\* ------------------------------------------------------------------------
\* advance followed by distance
\* ------------------------------------------------------------------------

\* The tags an object of tag type t converts to: t and its base classes.
RECURSIVE TagAncestors(_)
TagAncestors(t) ==
  IF t = "none" THEN {} ELSE {t} \cup TagAncestors(TagBase(t))

\* j = i; advance_dispatch(j, n, at()): the caller passes the tag at, its
\* iterator's category or a base of it, so that every overload can be given
\* the same iterator.  i holds j; call.i keeps the caller's i.
roundtrip(It, at, dt, p, k) ==
  LET ov == ResolveTag(at, advance_overloads) IN
  /\ pc = "idle"
  /\ at \in TagAncestors(iterator_traits(It))
  /\ dt \in TagAncestors(iterator_traits(It))
  /\ call' = [fn |-> "roundtrip", it |-> It, i |-> p, n |-> k,
              adv |-> ov, dist |-> ResolveTag(dt, distance_overloads)]
  /\ n' = k
  /\ CASE ov = "none" ->
            /\ pc' = "ill_formed"
            /\ i' = p
       [] ov = "random_access_iterator_tag" ->
            IF advance_dispatch_random(p, k) \in Positions
              THEN /\ pc' = "adv_done"
                   /\ i' = advance_dispatch_random(p, k)
              ELSE /\ pc' = "ub"
                   /\ i' \in Positions
       [] ov = "bidirectional_iterator_tag" ->
            /\ pc' = IF k >= 0 THEN "adv_bi_fwd" ELSE "adv_bi_bwd"
            /\ i' = p
       [] OTHER ->
            /\ pc' = "adv_in"
            /\ i' = p
  /\ UNCHANGED <<first, last, ret, incs, decs, swapVars, fwd, res>>

\* advance has returned: distance_dispatch(i, j, dt()).
roundtrip_distance ==
  /\ pc = "adv_done"
  /\ call.fn = "roundtrip"
  /\ first' = call.i
  /\ last' = i
  /\ incs' = 0
  /\ decs' = 0
  /\ CASE call.dist = "none" ->
            /\ pc' = "ill_formed"
            /\ UNCHANGED <<n, ret>>
       [] call.dist = "random_access_iterator_tag" ->
            /\ pc' = "dist_done"
            /\ ret' = distance_dispatch_random(call.i, i)
            /\ UNCHANGED n
       [] OTHER ->
            /\ pc' = "dist_loop"
            /\ n' = 0
            /\ UNCHANGED ret
  /\ UNCHANGED <<call, i, swapVars, fwd, res>>

\* ------------------------------------------------------------------------
\* the driver
\* ------------------------------------------------------------------------

Final == {"dist_done", "adv_done", "fwd_done", "swap_done", "cmp_done",
          "ub", "ill_formed"}

Init ==
  /\ pc = "idle"
  /\ call = NoCall
  /\ first = 0
  /\ last = 0
  /\ n = 0
  /\ i = 0
  /\ ret = 0
  /\ incs = 0
  /\ decs = 0
  /\ a = <<>>
  /\ b = <<>>
  /\ tmp = NoVal
  /\ idx = 0
  /\ swaps = 0
  /\ fwd = NoFwd
  /\ res = NoRes

\* The call is over; the next one starts from fresh locals.
Return ==
  /\ pc \in Final
  /\ ~(call.fn = "roundtrip" /\ pc = "adv_done")
  /\ pc' = "idle"
  /\ call' = NoCall
  /\ first' = 0
  /\ last' = 0
  /\ n' = 0
  /\ i' = 0
  /\ ret' = 0
  /\ incs' = 0
  /\ decs' = 0
  /\ a' = <<>>
  /\ b' = <<>>
  /\ tmp' = NoVal
  /\ idx' = 0
  /\ swaps' = 0
  /\ fwd' = NoFwd
  /\ res' = NoRes

Arrays == UNION {[1..len -> 0..MaxElem] : len \in 1..MaxArr}

CallDistance == \E It \in IterTypes, f \in Positions, l \in Positions :
                  distance(It, f, l)
CallAdvance  == \E It \in IterTypes, p \in Positions, k \in -MaxN..MaxN :
                  advance(It, p, k)
CallForward  == \E T \in Types, arg \in {"lvalue", "rvalue"} : forward(T, arg)
CallSwap     == \E vtype \in {"int", "string"}, x \in Values, y \in Values :
                  swap(vtype, x, y)
CallSwapArray == \E vtype \in {"int", "string"}, xs \in Arrays, ys \in Arrays :
                  swap_array(vtype, xs, ys)
CallCompare  == \E p \in Pairs, q \in Pairs : compare(p, q)
CallRoundTrip == \E It \in IterTypes, at \in Tags, dt \in Tags,
                    p \in Positions, k \in -MaxN..MaxN :
                   roundtrip(It, at, dt, p, k)

Step ==
  \/ distance_loop_body
  \/ distance_loop_ub
  \/ distance_loop_exit
  \/ advance_forward_body
  \/ advance_forward_exit
  \/ advance_backward_body
  \/ advance_backward_exit
  \/ swap_tmp
  \/ swap_a
  \/ swap_b
  \/ swap_array_body
  \/ swap_array_exit
  \/ roundtrip_distance

Next ==
  \/ CallDistance
  \/ CallAdvance
  \/ CallForward
  \/ CallSwap
  \/ CallSwapArray
  \/ CallCompare
  \/ CallRoundTrip
  \/ Step
  \/ Return

Spec == Init /\ [][Next]_vars

\* A call that has started runs to its end: the program is sequential and
\* nothing blocks it.
FairSpec == Spec /\ WF_vars(Step)

\* ========================================================================
\* Properties
\* ========================================================================

\* The position k increments away from p.
RECURSIVE IncN(_, _)
IncN(p, k) == IF k = 0 THEN p ELSE IncN(p + 1, k - 1)

\* The numbers of increments that take f to l: empty when l is not
\* reachable from f.
Reach(f, l) == {k \in 0..SeqLen : IncN(f, k) = l}

InDistanceLoopCall ==
  /\ call.fn = "distance"
  /\ call.overload = "input_iterator_tag"
  /\ Reach(call.first, call.last) # {}

C1_Counting ==
  InDistanceLoopCall =>
    \A k \in Reach(call.first, call.last) :
      /\ pc \in {"dist_loop", "dist_done"}
      /\ incs = n
      /\ IncN(call.first, n) = first
      /\ n <= k
      /\ first = last <=> n = k
      /\ pc = "dist_done" => ret = k /\ first = last

\* C1: when last is reachable from first by k >= 0 increments, the counting
\* loop of distance applies ++first exactly k times, never steps past the
\* end, terminates, and returns k (0 when first == last).
C1_DistanceCountsIncrements ==
  /\ []C1_Counting
  /\ (InDistanceLoopCall /\ pc = "dist_loop")
       ~> (InDistanceLoopCall /\ pc = "dist_done")

C1_Witness ==
  /\ InDistanceLoopCall
  /\ pc = "dist_done"
  /\ call.first = 1
  /\ call.last = 3
  /\ ret = 2
  /\ incs = 2

C1_WitnessZero ==
  /\ InDistanceLoopCall
  /\ pc = "dist_done"
  /\ call.first = call.last
  /\ ret = 0

\* C2: for first and last with last reachable from first, the counting loop
\* returns what the random-access strategy, last - first, returns.
C2_DistanceStrategiesAgree ==
  (call.fn = "distance" /\ pc = "dist_done"
     /\ Reach(call.first, call.last) # {})
    => ret = distance_dispatch_random(call.first, call.last)

C2_Witness ==
  /\ InDistanceLoopCall
  /\ pc = "dist_done"
  /\ call.it.category = "bidirectional_iterator_tag"
  /\ ret = 3
  /\ distance_dispatch_random(call.first, call.last) = 3

InAdvanceCall == call.fn = "advance" /\ call.overload # "none"

\* The position advance is asked to reach exists.
AdvanceTargetValid == call.i + call.n \in Positions

\* C3: advance(i, n) with n >= 0 leaves i at start + n under the input
\* loop, the bidirectional loop and i += n alike, by n increments in the
\* loops, whenever the sequence has a position start + n.
C3_AdvanceForward ==
  (InAdvanceCall /\ call.n >= 0) =>
    /\ AdvanceTargetValid => pc # "ub"
    /\ pc = "adv_done" =>
         /\ i = call.i + call.n
         /\ decs = 0
         /\ call.overload # "random_access_iterator_tag" => incs = call.n

C3_Witness ==
  /\ InAdvanceCall
  /\ pc = "adv_done"
  /\ call.overload = "input_iterator_tag"
  /\ call.i = 1
  /\ call.n = 2
  /\ i = 3

C3_WitnessBidirectional ==
  /\ InAdvanceCall
  /\ pc = "adv_done"
  /\ call.overload = "bidirectional_iterator_tag"
  /\ call.n = 3
  /\ i = 3

InBackwardCall ==
  /\ InAdvanceCall
  /\ call.n < 0
  /\ call.overload \in {"bidirectional_iterator_tag",
                        "random_access_iterator_tag"}

C4_Backward ==
  InBackwardCall =>
    /\ pc # "adv_bi_fwd"
    /\ incs = 0
    /\ AdvanceTargetValid => pc # "ub"
    /\ pc = "adv_bi_bwd" => decs <= -call.n /\ i = call.i - decs
    /\ pc = "adv_done" =>
         /\ i = advance_dispatch_random(call.i, call.n)
         /\ i = call.i - (-call.n)
         /\ call.overload = "bidirectional_iterator_tag" => decs = -call.n

\* C4: advance(i, n) with n < 0 on a bidirectional or random-access
\* iterator moves i back by |n|: the bidirectional loop applies exactly |n|
\* decrements and no increment, terminates, and ends where i += n ends.
C4_AdvanceBackward ==
  /\ []C4_Backward
  /\ (InBackwardCall /\ AdvanceTargetValid /\ pc = "adv_bi_bwd")
       ~> (InBackwardCall /\ pc = "adv_done")

C4_Witness ==
  /\ InBackwardCall
  /\ call.overload = "bidirectional_iterator_tag"
  /\ pc = "adv_done"
  /\ call.i = 3
  /\ call.n = -2
  /\ i = 1
  /\ decs = 2

\* C5: advance(i, 0) applies no increment and no decrement and leaves i
\* where it was, under every strategy.
C5_AdvanceZero ==
  (InAdvanceCall /\ call.n = 0) =>
    /\ i = call.i
    /\ incs = 0
    /\ decs = 0
    /\ pc \in {"adv_in", "adv_bi_fwd", "adv_done"}

C5_Witness ==
  /\ InAdvanceCall
  /\ call.n = 0
  /\ call.overload = "input_iterator_tag"
  /\ pc = "adv_done"
  /\ call.i = 2
  /\ i = 2

\* C6: forward<T> yields an lvalue when T is an lvalue reference (and the
\* argument is an lvalue), an rvalue when T is a non-reference or an rvalue
\* reference, and an rvalue argument with T an lvalue reference is rejected.
C6_ForwardPreservesCategory ==
  call.fn = "forward" =>
    /\ (call.T.ref = "lref" /\ call.arg = "lvalue")
         => pc = "fwd_done" /\ fwd.result = "lvalue"
    /\ call.T.ref \in {"none", "rref"}
         => pc = "fwd_done" /\ fwd.result = "rvalue"
    /\ (call.T.ref = "lref" /\ call.arg = "rvalue")
         => pc = "ill_formed" /\ fwd.result # "lvalue"

C6_Witness ==
  /\ call.fn = "forward"
  /\ call.T = [base |-> "int", ref |-> "lref"]
  /\ call.arg = "lvalue"
  /\ fwd.result = "lvalue"

C6_WitnessRejected ==
  /\ call.fn = "forward"
  /\ call.T.ref = "lref"
  /\ call.arg = "rvalue"
  /\ pc = "ill_formed"

\* C7: after the three moves of swap(a, b), a holds the old b and b the
\* old a, and tmp is gone: the two values are exchanged, none made or lost.
C7_SwapExchanges ==
  (call.fn = "swap" /\ pc = "swap_done") =>
    /\ a = call.b
    /\ b = call.a
    /\ tmp = NoVal

C7_Witness ==
  /\ call.fn = "swap"
  /\ call.vtype = "string"
  /\ pc = "swap_done"
  /\ call.a = <<1>>
  /\ call.b = <<2>>
  /\ a = <<2>>
  /\ b = <<1>>

InArraySwap == call.fn = "swap_array"

C8_Elementwise ==
  InArraySwap =>
    /\ idx <= Len(call.a)
    /\ swaps <= idx
    /\ pc = "arr_loop" => swaps = idx
    /\ \A j \in 1..Len(call.a) :
         /\ j <= swaps => a[j] = call.b[j] /\ b[j] = call.a[j]
         /\ j > idx + 1 => a[j] = call.a[j] /\ b[j] = call.b[j]
    /\ pc = "swap_done" =>
         /\ swaps = Len(call.a)
         /\ a = call.b
         /\ b = call.a

\* C8: swap on arrays of length N leaves a[i] = old b[i] and b[i] = old a[i]
\* for every i in 0..N-1, and its loop terminates after exactly N element
\* swaps.
C8_ArraySwap ==
  /\ []C8_Elementwise
  /\ (InArraySwap /\ pc = "arr_loop") ~> (InArraySwap /\ pc = "swap_done")

C8_Witness ==
  /\ InArraySwap
  /\ pc = "swap_done"
  /\ call.a = <<0, 1>>
  /\ call.b = <<1, 0>>
  /\ a = <<1, 0>>
  /\ b = <<0, 1>>
  /\ swaps = 2

\* The rank of a pair in the lexicographic order of Pairs.
LexRank(p) == p[1] * (MaxVal + 1) + p[2]

BoolToNat(x) == IF x THEN 1 ELSE 0

\* C9: a < b is the lexicographic order, first by first then by second;
\* exactly one of a < b, a == b, b < a holds; and !=, >, <=, >= are
\* consistent with == and <.
C9_PairLexicographic ==
  (call.fn = "compare" /\ pc = "cmp_done") =>
    LET p == call.a
        q == call.b
    IN
    /\ res.lt <=> (p[1] < q[1] \/ (p[1] = q[1] /\ p[2] < q[2]))
    /\ res.lt <=> LexRank(p) < LexRank(q)
    /\ res.eq <=> p = q
    /\ BoolToNat(res.lt) + BoolToNat(res.eq) + BoolToNat(pair_lt(q, p)) = 1
    /\ res.ne <=> ~res.eq
    /\ res.gt <=> pair_lt(q, p)
    /\ res.le <=> ~pair_lt(q, p)
    /\ res.ge <=> ~res.lt

C9_Witness ==
  /\ call.fn = "compare"
  /\ pc = "cmp_done"
  /\ call.a = <<1, 2>>
  /\ call.b = <<2, 0>>
  /\ res.lt
  /\ ~res.gt
  /\ res.le
  /\ res.ne

LoopTags == {"input_iterator_tag", "forward_iterator_tag",
             "bidirectional_iterator_tag"}

\* C10: distance subtracts only for random_access_iterator_tag and counts
\* for the input, forward and bidirectional tags; advance uses i += n for
\* random access, the two-direction loop for bidirectional and the
\* increment-only loop for input and forward; T* and const T* are random
\* access.
C10_TagDispatch ==
  LET cat == iterator_traits(call.it) IN
  /\ call.fn \in {"distance", "advance"} =>
       (call.it.kind \in {"T*", "const T*"}
          => call.overload = "random_access_iterator_tag")
  /\ call.fn = "distance" =>
       /\ call.overload = "random_access_iterator_tag"
            <=> cat = "random_access_iterator_tag"
       /\ cat \in LoopTags => call.overload = "input_iterator_tag"
       /\ call.overload = "random_access_iterator_tag"
            => pc = "dist_done" /\ incs = 0
       /\ call.overload = "input_iterator_tag"
            => pc \in {"dist_loop", "dist_done", "ub"}
  /\ call.fn = "advance" =>
       /\ cat = "random_access_iterator_tag"
            => call.overload = "random_access_iterator_tag"
                 /\ pc \in {"adv_done", "ub"} /\ incs = 0 /\ decs = 0
       /\ cat = "bidirectional_iterator_tag"
            => call.overload = "bidirectional_iterator_tag"
                 /\ pc \in {"adv_bi_fwd", "adv_bi_bwd", "adv_done", "ub"}
       /\ cat \in {"input_iterator_tag", "forward_iterator_tag"}
            => call.overload = "input_iterator_tag"
                 /\ pc \in {"adv_in", "adv_done", "ub"} /\ decs = 0

C10_Witness ==
  /\ call.fn = "advance"
  /\ call.it = [kind |-> "class", category |-> "forward_iterator_tag"]
  /\ call.overload = "input_iterator_tag"
  /\ pc = "adv_in"
  /\ incs = 1

C10_WitnessPointer ==
  /\ call.fn = "distance"
  /\ call.it.kind = "const T*"
  /\ call.overload = "random_access_iterator_tag"
  /\ pc = "dist_done"
  /\ ret = 2

InRoundTrip ==
  /\ call.fn = "roundtrip"
  /\ call.adv # "none"
  /\ call.dist # "none"
  /\ call.n >= 0

\* C11: for every start i and every n >= 0 for which the sequence has a
\* position i + n, advance(j, n) on a copy j of i followed by
\* distance(i, j) returns n, under every pair of an advance overload and a
\* distance overload; neither call steps outside the sequence.
C11_RoundTrip ==
  InRoundTrip =>
    /\ call.i + call.n \in Positions => pc # "ub"
    /\ pc \in {"dist_loop", "dist_done"} =>
         /\ first \in Positions
         /\ last = call.i + call.n
         /\ i = last
    /\ pc = "dist_done" => ret = call.n

C11_Witness ==
  /\ InRoundTrip
  /\ call.adv = "bidirectional_iterator_tag"
  /\ call.dist = "input_iterator_tag"
  /\ pc = "dist_done"
  /\ call.i = 1
  /\ call.n = 2
  /\ ret = 2

\* Every pair of overloads completes a round trip of two positions.
C11_WitnessPair(ao, do) ==
  /\ InRoundTrip
  /\ call.adv = ao
  /\ call.dist = do
  /\ pc = "dist_done"
  /\ ret = 2

C11_WitnessInputRandom ==
  C11_WitnessPair("input_iterator_tag", "random_access_iterator_tag")

C11_WitnessRandomInput ==
  C11_WitnessPair("random_access_iterator_tag", "input_iterator_tag")

C11_WitnessRandomRandom ==
  C11_WitnessPair("random_access_iterator_tag", "random_access_iterator_tag")

====
